---- MODULE Spec2Model ----
(***************************************************************************)
(* Model of src/models/cgan/model.py: the CGAN training orchestrator       *)
(* (CGAN.train), the batch sampler (CGAN.get_data_batch) and the           *)
(* persistence operations (CGAN.save, CGAN.load).                          *)
(*                                                                         *)
(* Weights are abstracted to version counters: gW / dW count the gradient  *)
(* updates applied to the generator / discriminator parameters.  Rows of   *)
(* the training table are identified by their index 1..data_len.           *)
(***************************************************************************)
EXTENDS Integers, Sequences, FiniteSets, TLC

(* ------------------------------ bounds --------------------------------- *)
MaxRows == 3        \* rows of the table in the sampler specification
MaxStart == 4       \* first step index of a sampler window
NumCols == 2        \* columns of the table (features and label)
MaxTrainRows == 2   \* rows of the table in the training specification
MaxEpochs == 2      \* the epochs argument of train
MaxInterval == 2    \* the sample_interval argument of train
MaxCalls == 2       \* train / save / load calls in one behaviour

VARIABLES
  data_len,      \* len(train)
  batch_size,    \* self.batch_size / the batch_size argument
  seeded,        \* argument of the last np.random.seed call, -1 before any
  train_ix,      \* the permutation np.random.choice yields under `seeded`
  batch,         \* value returned by the last get_data_batch call
  step,          \* sampler harness: next step index (the seed argument)
  first_step,    \* sampler harness: first step index of the window
  nsampled,      \* sampler harness: number of calls made in the window
  covered,       \* sampler harness: row indices returned in the window
  pc,            \* position of the control flow: "idle" or a line of train
  calls,         \* number of train / save / load calls made so far
  trained,       \* whether train has been called on this object
  trainable,     \* self.discriminator.trainable
  freezeSemantics, \* when the framework reads the flag: "call" or "compile"
  gW,            \* generator weights (number of updates applied)
  dW,            \* discriminator weights (number of updates applied)
  epochs,        \* train argument
  sample_interval, \* train argument
  cache_prefix,  \* train argument
  data_dir,      \* train argument
  epoch,         \* loop variable of train
  label,         \* label = batch_y[:, label_dim] of the current step
  gen_records,   \* fake batch of the current step
  log,           \* operations of the current step, in the order they ran
  count,         \* operations run by the current train call, per kind
  written,       \* files written by the current train call
  visited,       \* rows that were in a real batch of the current train call
  storage,       \* the files on disk: name -> what was written
  ioCount,       \* number of file reads / writes attempted
  last           \* outcome of the last call that returned

samplerVars == <<data_len, batch_size, seeded, train_ix, batch,
                 step, first_step, nsampled, covered>>

harnessVars == <<step, first_step, nsampled, covered>>

trainVars == <<pc, calls, trained, trainable, freezeSemantics, gW, dW,
               epochs,
               sample_interval, cache_prefix, data_dir, epoch, label,
               gen_records, log, count, written, visited, storage, ioCount, last>>

vars == <<samplerVars, trainVars>>

(* ------------------------- CGAN.get_data_batch ------------------------- *)
Min(a, b) == IF a < b THEN a ELSE b

Range(s) == {s[i] : i \in DOMAIN s}

\* the orders np.random.choice(list(train.index), replace=False, size=len(train))
\* can produce: every permutation of the index 1..n
ShuffleOrders(n) ==
  {p \in [1..n -> 1..n] : \A i, j \in 1..n : p[i] = p[j] => i = j}

\* start_i = (batch_size * seed) % len(train)
StartIndex(bsz, seed, n) == (bsz * seed) % n

\* mutant: the shuffle seed is not divided by the length of the table
ShuffleSeed_PerStep(bsz, seed, n) == bsz * seed

\* shuffle_seed = (batch_size * seed) // len(train)
ShuffleSeed(bsz, seed, n) == (bsz * seed) \div n

\* mutant: the index list is not duplicated
Duplicate_Once(ix) == ix

\* train_ix = list(train_ix) + list(train_ix)
Duplicate(ix) == ix \o ix

\* Python slice s[start:stop] on a 0-based list, clamped at the end of the list
Slice(s, start, stop) == SubSeq(s, start + 1, Min(stop, Len(s)))

\* np.reshape(x, (batch_size, -1)) of the len(x) selected rows of NumCols values:
\* raises unless batch_size divides the number of values
Reshape(x, bsz) ==
  LET total == Len(x) * NumCols
  IN  [ok    |-> (total % bsz = 0),
       nrows |-> IF total % bsz = 0 THEN bsz ELSE 0,
       ix    |-> x]

\* np.random.seed(shuffle_seed); np.random.choice(...): the same seed yields the
\* same permutation; a new seed yields some permutation
Shuffled(p, shuffle_seed) ==
  /\ p \in ShuffleOrders(data_len)
  /\ (shuffle_seed = seeded => p = train_ix)

\* body of get_data_batch once the shuffle p for its seed is known
GetDataBatch(p, n, bsz, seed) ==
  LET start_i == StartIndex(bsz, seed, n)
      stop_i  == start_i + bsz
  IN  Reshape(Slice(Duplicate(p), start_i, stop_i), bsz)

NoBatch == [ok |-> FALSE, nrows |-> 0, ix |-> <<>>]

(* ------------------------------ CGAN.__init__ -------------------------- *)
\* self.discriminator.trainable = True, then self.discriminator.compile(...)
DiscriminatorCompiledTrainable == TRUE

\* self.discriminator.trainable = False, then self.combined.compile(...)
CombinedCompiledTrainable == FALSE

NoFiles == [f \in {} |-> 0]

\* the value of a call that returns no generator
NoGenerator == [kind |-> "none", w |-> -1]

NoCount == [predict |-> 0, d_real |-> 0, d_fake |-> 0, g_update |-> 0]

\* the object after CGAN(gan_args): fresh weights, the flag left False
Constructed ==
  /\ pc = "idle"
  /\ calls = 0
  /\ trained = FALSE
  /\ trainable = CombinedCompiledTrainable
  /\ gW = 0
  /\ dW = 0
  /\ epochs = 0
  /\ sample_interval = 1
  /\ cache_prefix = ""
  /\ data_dir = ""
  /\ epoch = 0
  /\ label = <<>>
  /\ gen_records = [w |-> 0, label |-> <<>>]
  /\ log = <<>>
  /\ count = NoCount
  /\ written = {}
  /\ visited = {}
  /\ storage = NoFiles
  /\ ioCount = 0
  /\ last = [op |-> "none", path |-> "", err |-> "none", ret |-> NoGenerator]

\* whether a train_on_batch call of the discriminator model updates its weights:
\* the framework reads the flag either at the call or as it was at compile
DiscriminatorTrains ==
  IF freezeSemantics = "call" THEN trainable ELSE DiscriminatorCompiledTrainable

\* whether a train_on_batch call of the combined model updates the
\* discriminator's weights
CombinedTrainsDiscriminator ==
  IF freezeSemantics = "call" THEN trainable ELSE CombinedCompiledTrainable

(* -------------------------------- CGAN.train --------------------------- *)
Prefixes == {"ckpt"}
DataDirs == {"out/"}

\* data_dir + cache_prefix + '_{}_model_weights_step_{}.h5', .format(role, epoch)
CheckpointName(dir, prefix, role, e) ==
  dir \o prefix \o "_" \o role \o "_model_weights_step_" \o ToString(e) \o ".h5"

\* mutant: the checkpoint test is off by one step
CheckpointDue_OffByOne(e, interval) == (e + 1) % interval = 0

\* if epoch % sample_interval == 0
CheckpointDue(e, interval) == e % interval = 0

WriteFile(files, name, content) ==
  [f \in DOMAIN files \cup {name} |-> IF f = name THEN content ELSE files[f]]

Return(op, path, err) ==
  /\ pc' = "idle"
  /\ last' = [op |-> op, path |-> path, err |-> err, ret |-> NoGenerator]

\* train(self, data, train_arguments): unpack the arguments (lines 61-66);
\* a behaviour follows one object through at most one train call
TrainCall ==
  /\ pc = "idle"
  /\ calls < MaxCalls
  /\ ~trained
  /\ calls' = calls + 1
  /\ trained' = TRUE
  /\ epochs' \in 0..MaxEpochs
  /\ sample_interval' \in 0..MaxInterval
  /\ cache_prefix' \in Prefixes
  /\ data_dir' \in DataDirs
  /\ epoch' = 0
  /\ log' = <<>>
  /\ count' = NoCount
  /\ written' = {}
  /\ visited' = {}
  /\ pc' = "for"
  /\ UNCHANGED <<samplerVars, harnessVars, trainable, freezeSemantics, gW, dW,
                 label, gen_records, storage, ioCount, last>>

\* for epoch in range(epochs): enter the body (line 68)
ForEpoch ==
  /\ pc = "for"
  /\ epoch < epochs
  /\ pc' = "set_trainable"
  /\ log' = <<>>
  /\ UNCHANGED <<samplerVars, harnessVars, calls, trained, trainable,
                 freezeSemantics, gW, dW, epochs, sample_interval,
                 cache_prefix, data_dir, epoch, label, gen_records, count,
                 written, visited, storage, ioCount, last>>

\* mutant: the loop stops one step early
ForExit_Early ==
  /\ pc = "for"
  /\ ~(epoch + 1 < epochs)
  /\ Return("train", data_dir, "none")
  /\ UNCHANGED <<samplerVars, harnessVars, calls, trained, trainable,
                 freezeSemantics, gW, dW, epochs, sample_interval,
                 cache_prefix, data_dir, epoch, label, gen_records, log,
                 count, written, visited, storage, ioCount>>

\* for epoch in range(epochs): the range is exhausted, train returns
ForExit ==
  /\ pc = "for"
  /\ ~(epoch < epochs)
  /\ Return("train", data_dir, "none")
  /\ UNCHANGED <<samplerVars, harnessVars, calls, trained, trainable,
                 freezeSemantics, gW, dW, epochs, sample_interval,
                 cache_prefix, data_dir, epoch, label, gen_records, log,
                 count, written, visited, storage, ioCount>>

\* mutant: the flag is not set back to True at the start of a step
SetTrainableTrue_Omitted ==
  /\ pc = "set_trainable"
  /\ pc' = "get_batch"
  /\ UNCHANGED <<samplerVars, harnessVars, calls, trained, trainable,
                 freezeSemantics, gW, dW, epochs, sample_interval,
                 cache_prefix, data_dir, epoch, label, gen_records, log,
                 count, written, visited, storage, ioCount, last>>

\* self.discriminator.trainable = True (line 69)
SetTrainableTrue ==
  /\ pc = "set_trainable"
  /\ trainable' = TRUE
  /\ pc' = "get_batch"
  /\ UNCHANGED <<samplerVars, harnessVars, calls, trained, freezeSemantics,
                 gW, dW, epochs, sample_interval, cache_prefix, data_dir,
                 epoch, label, gen_records, log, count, written, visited,
                 storage, ioCount, last>>

\* batch_y = self.get_data_batch(data, self.batch_size); label = batch_y[:, label_dim]
\* (lines 73-76): the seed argument is left at its default 0
GetBatch ==
  /\ pc = "get_batch"
  /\ \E p \in ShuffleOrders(data_len) :
       /\ Shuffled(p, ShuffleSeed(batch_size, 0, data_len))
       /\ train_ix' = p
       /\ seeded' = ShuffleSeed(batch_size, 0, data_len)
       /\ batch' = GetDataBatch(p, data_len, batch_size, 0)
  /\ IF batch'.ok
     THEN /\ label' = batch'.ix
          /\ visited' = visited \cup Range(batch'.ix)
          /\ pc' = "predict"
          /\ UNCHANGED last
     ELSE /\ Return("train", data_dir, "ValueError")
          /\ UNCHANGED <<label, visited>>
  /\ UNCHANGED <<data_len, batch_size, harnessVars, calls, trained, trainable,
                 freezeSemantics, gW, dW, epochs, sample_interval,
                 cache_prefix, data_dir, epoch, gen_records, log, count,
                 written, storage, ioCount>>

LogEntry(op, lbl) ==
  [op |-> op, flag |-> trainable, label |-> lbl, gBefore |-> gW, gAfter |-> gW',
   dBefore |-> dW, dAfter |-> dW']

\* gen_records = self.generator.predict([noise, label]) (line 79)
Predict ==
  /\ pc = "predict"
  /\ gen_records' = [w |-> gW, label |-> label]
  /\ UNCHANGED <<gW, dW>>
  /\ log' = Append(log, LogEntry("predict", label))
  /\ count' = [count EXCEPT !.predict = @ + 1]
  /\ pc' = "d_real"
  /\ UNCHANGED <<samplerVars, harnessVars, calls, trained, trainable,
                 freezeSemantics, epochs, sample_interval, cache_prefix,
                 data_dir, epoch, label, written, visited, storage, ioCount,
                 last>>

\* d_loss_real = self.discriminator.train_on_batch([batch_x, label], valid) (line 82)
TrainDiscriminatorReal ==
  /\ pc = "d_real"
  /\ dW' = IF DiscriminatorTrains THEN dW + 1 ELSE dW
  /\ UNCHANGED gW
  /\ log' = Append(log, LogEntry("d_real", label))
  /\ count' = [count EXCEPT !.d_real = @ + 1]
  /\ pc' = "d_fake"
  /\ UNCHANGED <<samplerVars, harnessVars, calls, trained, trainable,
                 freezeSemantics, epochs, sample_interval, cache_prefix,
                 data_dir, epoch, label, gen_records, written, visited,
                 storage, ioCount, last>>

\* d_loss_fake = self.discriminator.train_on_batch([gen_records, label], fake)
\* (lines 83-84)
TrainDiscriminatorFake ==
  /\ pc = "d_fake"
  /\ dW' = IF DiscriminatorTrains THEN dW + 1 ELSE dW
  /\ UNCHANGED gW
  /\ log' = Append(log, LogEntry("d_fake", gen_records.label))
  /\ count' = [count EXCEPT !.d_fake = @ + 1]
  /\ pc' = "set_frozen"
  /\ UNCHANGED <<samplerVars, harnessVars, calls, trained, trainable,
                 freezeSemantics, epochs, sample_interval, cache_prefix,
                 data_dir, epoch, label, gen_records, written, visited,
                 storage, ioCount, last>>

\* mutant: the flag is not set to False before the generator phase
SetTrainableFalse_Omitted ==
  /\ pc = "set_frozen"
  /\ pc' = "g_update"
  /\ UNCHANGED <<samplerVars, harnessVars, calls, trained, trainable,
                 freezeSemantics, gW, dW, epochs, sample_interval,
                 cache_prefix, data_dir, epoch, label, gen_records, log,
                 count, written, visited, storage, ioCount, last>>

\* self.discriminator.trainable = False (line 89)
SetTrainableFalse ==
  /\ pc = "set_frozen"
  /\ trainable' = FALSE
  /\ pc' = "g_update"
  /\ UNCHANGED <<samplerVars, harnessVars, calls, trained, freezeSemantics,
                 gW, dW, epochs, sample_interval, cache_prefix, data_dir,
                 epoch, label, gen_records, log, count, written, visited,
                 storage, ioCount, last>>

\* g_loss = self.combined.train_on_batch([noise, label], valid) (lines 90-95)
TrainGenerator ==
  /\ pc = "g_update"
  /\ gW' = gW + 1
  /\ dW' = IF CombinedTrainsDiscriminator THEN dW + 1 ELSE dW
  /\ log' = Append(log, LogEntry("g_update", label))
  /\ count' = [count EXCEPT !.g_update = @ + 1]
  /\ pc' = "checkpoint"
  /\ UNCHANGED <<samplerVars, harnessVars, calls, trained, trainable,
                 freezeSemantics, epochs, sample_interval, cache_prefix,
                 data_dir, epoch, label, gen_records, written, visited,
                 storage, ioCount, last>>

\* the files the checkpoint of step e writes (lines 101-103)
CheckpointFiles(e) ==
  {[name |-> CheckpointName(data_dir, cache_prefix, "generator", e),
    content |-> [kind |-> "generator", w |-> gW, by |-> "train"]],
   [name |-> CheckpointName(data_dir, cache_prefix, "discriminator", e),
    content |-> [kind |-> "discriminator", w |-> dW, by |-> "train"]]}

\* if epoch % sample_interval == 0: save both weight files; end of the loop body
\* (lines 98-109)
Checkpoint ==
  /\ pc = "checkpoint"
  /\ IF sample_interval = 0
     THEN /\ Return("train", data_dir, "ZeroDivisionError")
          /\ UNCHANGED <<epoch, written, storage, ioCount>>
     ELSE /\ IF CheckpointDue(epoch, sample_interval)
             THEN LET files == CheckpointFiles(epoch)
                      names == {f.name : f \in files}
                  IN  /\ storage' =
                           [n \in DOMAIN storage \cup names |->
                              IF n \in names
                              THEN (CHOOSE f \in files : f.name = n).content
                              ELSE storage[n]]
                      /\ written' = written \cup names
                      /\ ioCount' = ioCount + 2
             ELSE UNCHANGED <<written, storage, ioCount>>
          /\ epoch' = epoch + 1
          /\ pc' = "for"
          /\ UNCHANGED last
  /\ UNCHANGED <<samplerVars, harnessVars, calls, trained, trainable,
                 freezeSemantics, gW, dW, epochs, sample_interval,
                 cache_prefix, data_dir, label, gen_records, log, count,
                 visited>>

TrainStep ==
  \/ ForEpoch
  \/ ForExit
  \/ SetTrainableTrue
  \/ GetBatch
  \/ Predict
  \/ TrainDiscriminatorReal
  \/ TrainDiscriminatorFake
  \/ SetTrainableFalse
  \/ TrainGenerator
  \/ Checkpoint

(* ----------------------------- CGAN.save / load ------------------------ *)
ExistingDirs == {"models"}
Paths == {"models", "missing"}
Names == {"gen.h5"}

\* os.path.isdir(path)
IsDir(path) == path \in ExistingDirs

\* os.path.join(path, name)
Join(path, name) == path \o "/" \o name

\* mutant: the directory assertion is missing
PathAccepted_Unchecked(path) == TRUE

\* assert os.path.isdir(path) == True (lines 112-113 and 119-120)
PathAccepted(path) == IsDir(path)

\* mutant: save writes the discriminator's weights
SavedContent_Discriminator == [kind |-> "discriminator", w |-> dW, by |-> "save"]

\* what self.generator.save_weights(model_path) writes (line 115)
SavedContent == [kind |-> "generator", w |-> gW, by |-> "save"]

\* save(self, path, name) (lines 111-116)
Save ==
  /\ pc = "idle"
  /\ calls < MaxCalls
  /\ calls' = calls + 1
  /\ \E path \in Paths, name \in Names :
       IF ~PathAccepted(path)
       THEN /\ Return("save", path, "AssertionError")
            /\ UNCHANGED <<storage, ioCount>>
       ELSE /\ storage' = WriteFile(storage, Join(path, name), SavedContent)
            /\ ioCount' = ioCount + 1
            /\ Return("save", path, "none")
  /\ UNCHANGED <<samplerVars, harnessVars, trained, trainable,
                 freezeSemantics, gW, dW, epochs, sample_interval,
                 cache_prefix, data_dir, epoch, label, gen_records, log,
                 count, written, visited>>

\* load(self, path) (lines 118-123): Generator(self.batch_size) omits the
\* required num_classes argument of Generator.__init__ and raises TypeError
\* before self.generator is assigned and before any file is read
Load ==
  /\ pc = "idle"
  /\ calls < MaxCalls
  /\ calls' = calls + 1
  /\ \E path \in Paths :
       IF ~PathAccepted(path)
       THEN Return("load", path, "AssertionError")
       ELSE Return("load", path, "TypeError")
  /\ UNCHANGED <<samplerVars, harnessVars, trained, trainable,
                 freezeSemantics, gW, dW, epochs, sample_interval,
                 cache_prefix, data_dir, epoch, label, gen_records, log,
                 count, written, visited, storage, ioCount>>

(* --------------------------- the specifications ------------------------ *)
Init ==
  /\ data_len \in 1..MaxTrainRows
  /\ batch_size \in 1..(2 * data_len)
  /\ seeded = -1
  /\ train_ix = [i \in 1..data_len |-> i]
  /\ batch = NoBatch
  /\ step = 0
  /\ first_step = 0
  /\ nsampled = 0
  /\ covered = {}
  /\ freezeSemantics \in {"call", "compile"}
  /\ Constructed

Next ==
  \/ TrainCall
  \/ TrainStep
  \/ Save
  \/ Load

Spec == Init /\ [][Next]_vars

\* a running train call always takes its next step
FairSpec == Spec /\ WF_vars(TrainStep)

(* --------------------- sampler over consecutive steps ------------------ *)
InitSampler ==
  /\ data_len \in 1..MaxRows
  /\ batch_size \in 1..(2 * data_len)
  /\ seeded = -1
  /\ train_ix = [i \in 1..data_len |-> i]
  /\ batch = NoBatch
  /\ first_step \in 0..MaxStart
  /\ step = first_step
  /\ nsampled = 0
  /\ covered = {}
  /\ freezeSemantics = "call"
  /\ Constructed

\* one call get_data_batch(train, batch_size, seed = step)
SampleStep ==
  /\ nsampled < batch_size * data_len
  /\ \E p \in ShuffleOrders(data_len) :
       /\ Shuffled(p, ShuffleSeed(batch_size, step, data_len))
       /\ train_ix' = p
       /\ seeded' = ShuffleSeed(batch_size, step, data_len)
       /\ batch' = GetDataBatch(p, data_len, batch_size, step)
  /\ covered' = IF batch'.ok /\ Len(batch'.ix) = batch_size
                THEN covered \cup Range(batch'.ix) ELSE covered
  /\ step' = step + 1
  /\ nsampled' = nsampled + 1
  /\ UNCHANGED <<data_len, batch_size, first_step>>
  /\ UNCHANGED trainVars

NextSampler == SampleStep

SamplerSpec == InitSampler /\ [][NextSampler]_vars

(* ------------------------------- properties ---------------------------- *)
StepOrder == <<"predict", "d_real", "d_fake", "g_update">>

LogOps == [i \in DOMAIN log |-> log[i].op]

\* C1: each discriminator update runs with trainable = True and the
\* combined-model update runs with trainable = False
C1_FlagMatchesPhase ==
  \A i \in DOMAIN log :
    /\ log[i].op \in {"d_real", "d_fake"} => log[i].flag = TRUE
    /\ log[i].op = "g_update" => log[i].flag = FALSE

\* C1 witness: a second step has run all three updates
C1_Witness ==
  /\ pc = "checkpoint"
  /\ epoch = 1
  /\ LogOps = StepOrder

\* C2: the combined-model update leaves the discriminator weights as they
\* were immediately before it (and changes the generator weights)
C2_FrozenWeights ==
  \A i \in DOMAIN log :
    log[i].op = "g_update" =>
      /\ log[i].dAfter = log[i].dBefore
      /\ log[i].gAfter # log[i].gBefore

\* C2 witness: a combined-model update has run on a trained discriminator
C2_Witness ==
  \E i \in DOMAIN log :
    /\ log[i].op = "g_update"
    /\ log[i].dBefore > 0
    /\ dW = log[i].dBefore

\* C3 (as stated): for 1 <= B <= 2N every call returns exactly B rows
C3_ExactlyBRowsUpTo2N ==
  nsampled > 0 =>
    (batch.ok /\ batch.nrows = batch_size /\ Len(batch.ix) = batch_size)

\* C3 (amended): for 1 <= B <= N+1 every call returns exactly B rows
C3_ExactlyBRows ==
  (nsampled > 0 /\ batch_size <= data_len + 1) =>
    (batch.ok /\ batch.nrows = batch_size /\ Len(batch.ix) = batch_size)

\* C3 witness: a call whose window ends at the very end of the duplicated list
C3_Witness ==
  /\ nsampled > 0
  /\ data_len >= 2
  /\ batch_size = data_len + 1
  /\ StartIndex(batch_size, step - 1, data_len) = data_len - 1
  /\ batch.ok
  /\ Len(batch.ix) = batch_size

\* C4 (as stated): over B*N consecutive steps every row index appears in a batch
C4_CoverageAnyB ==
  nsampled = batch_size * data_len => covered = 1..data_len

\* C4 (amended): for B >= 2, over B*N consecutive steps every row index
\* appears in a batch
C4_Coverage ==
  (nsampled = batch_size * data_len /\ batch_size >= 2) => covered = 1..data_len

\* C4 witness: a full window that started in the middle of a pass, with batches
\* smaller than the table
C4_Witness ==
  /\ nsampled = batch_size * data_len
  /\ batch_size >= 2
  /\ batch_size < data_len
  /\ StartIndex(batch_size, first_step, data_len) # 0
  /\ covered = 1..data_len

C6_SaveLoadRoundTrip ==
  (/\ pc = "idle"
   /\ last.op = "load"
   /\ IsDir(last.path)
   /\ \E name \in Names : Join(last.path, name) \in DOMAIN storage) =>
     /\ last.err = "none"
     /\ \E name \in Names :
          /\ last.ret.kind = "generator"
          /\ last.ret.w = storage[Join(last.path, name)].w

\* C7: save and load on a path that is no directory fail with an assertion
\* error, attempt no I/O and leave the models unchanged
C7_BadPathRejected ==
  [][(/\ pc = "idle"
      /\ pc' = "idle"
      /\ calls' # calls
      /\ ~IsDir(last'.path)) =>
        /\ last'.op \in {"save", "load"}
        /\ last'.err = "AssertionError"
        /\ storage' = storage
        /\ ioCount' = ioCount
        /\ gW' = gW
        /\ dW' = dW
        /\ trainable' = trainable]_vars

\* C7 witness: a save on a missing directory was rejected after training
C7_Witness ==
  /\ pc = "idle"
  /\ last.op = "save"
  /\ ~IsDir(last.path)
  /\ last.err = "AssertionError"
  /\ gW > 0

\* C8 (as stated): the only weights ever written to storage are generator weights
C8_OnlyGeneratorStored ==
  \A f \in DOMAIN storage : storage[f].kind = "generator"

\* C8 (amended): save writes only generator weights, discriminator weights are
\* written only by the checkpoints of train, and combined-model state is never
\* written
C8_StoredKinds ==
  \A f \in DOMAIN storage :
    /\ storage[f].kind \in {"generator", "discriminator"}
    /\ storage[f].by = "save" => storage[f].kind = "generator"
    /\ storage[f].kind = "discriminator" => storage[f].by = "train"

\* C8 witness: storage holds a file save wrote and a discriminator checkpoint
C8_Witness ==
  /\ \E f \in DOMAIN storage : storage[f].by = "save"
  /\ \E f \in DOMAIN storage : storage[f].kind = "discriminator"

\* the operations of a step run in the fixed order, once each, on the labels of
\* the step's real batch, and a run that returns without error ran E steps
StepOrderInv ==
  /\ Len(log) <= 4
  /\ LogOps = SubSeq(StepOrder, 1, Len(log))
  /\ \A i \in DOMAIN log : log[i].label = label
  /\ pc = "checkpoint" => Len(log) = 4
  /\ pc = "g_update" => Len(log) = 3
  /\ Len(log) >= 3 => gen_records.w = log[1].gBefore
  /\ pc \notin {"idle", "for"} =>
       \A op \in {"predict", "d_real", "d_fake", "g_update"} :
         count[op] = epoch + (IF \E i \in DOMAIN log : log[i].op = op THEN 1 ELSE 0)
  /\ pc = "for" =>
       \A op \in {"predict", "d_real", "d_fake", "g_update"} : count[op] = epoch
  /\ (pc = "idle" /\ last.op = "train" /\ last.err = "none") =>
       \A op \in {"predict", "d_real", "d_fake", "g_update"} : count[op] = epochs

\* C9: train runs its E steps in the fixed order and then returns
C9_TrainRunsESteps ==
  /\ []StepOrderInv
  /\ (pc # "idle") ~> (pc = "idle")

\* C9 witness: a train call of two steps has returned without error
C9_Witness ==
  /\ pc = "idle"
  /\ last.op = "train"
  /\ last.err = "none"
  /\ epochs = 2
  /\ count.g_update = 2

\* C10: a run of at least ceil(N/B) steps with B <= N has every row of the
\* table in the real batch of some step
C10_RunVisitsEveryRow ==
  (/\ pc = "idle"
   /\ last.op = "train"
   /\ last.err = "none"
   /\ batch_size <= data_len
   /\ epochs * batch_size >= data_len) => visited = 1..data_len
====
